---- MODULE Spec2Model ----
(***************************************************************************)
(* Model of src/src/preprocessing.py: the per-token date parser            *)
(* clean_month_year.parse_date and the outer-join aligner                  *)
(* merge_series_freq.                                                      *)
(*                                                                         *)
(* A Python str is a sequence of characters; a character is a one-letter   *)
(* TLA+ string, except "sup2", which stands for the single character       *)
(* U+00B2 (SUPERSCRIPT TWO): str.isdigit() is True for it and int()        *)
(* rejects it.                                                             *)
(***************************************************************************)
EXTENDS Integers, Sequences, FiniteSets, TLC

VARIABLES val, out, dfs, heap, orig, result, again, pc

vars == <<val, out, dfs, heap, orig, result, again, pc>>

(***************************************************************************)
(* Bounds of the model.                                                    *)
(***************************************************************************)
MaxParts == 3

(***************************************************************************)
(* Characters and the str methods parse_date uses.                         *)
(***************************************************************************)
LowerLetters ==
    <<"a","b","c","d","e","f","g","h","i","j","k","l","m",
      "n","o","p","q","r","s","t","u","v","w","x","y","z">>

UpperLetters ==
    <<"A","B","C","D","E","F","G","H","I","J","K","L","M",
      "N","O","P","Q","R","S","T","U","V","W","X","Y","Z">>

DecimalDigits == <<"0","1","2","3","4","5","6","7","8","9">>

Range(s) == {s[i] : i \in DOMAIN s}

IndexIn(s, c) == CHOOSE i \in DOMAIN s : s[i] = c

\* str.lower() on one character.
LowerChar(c) ==
    IF c \in Range(UpperLetters) THEN LowerLetters[IndexIn(UpperLetters, c)] ELSE c

LowerStr(s) == [i \in DOMAIN s |-> LowerChar(s[i])]

IsAlphaChar(c) == c \in Range(LowerLetters) \cup Range(UpperLetters)

IsDecimalChar(c) == c \in Range(DecimalDigits)

\* Characters for which str.isdigit() is True: the decimal digits and the
\* digit-valued characters that are not decimal, such as U+00B2.
IsDigitChar(c) == IsDecimalChar(c) \/ c = "sup2"

\* str.isalpha(): non-empty and every character alphabetic.
StrIsAlpha(s) == Len(s) > 0 /\ \A i \in DOMAIN s : IsAlphaChar(s[i])

\* str.isdigit(): non-empty and every character a digit.
StrIsDigit(s) == Len(s) > 0 /\ \A i \in DOMAIN s : IsDigitChar(s[i])

StrIsDecimal(s) == Len(s) > 0 /\ \A i \in DOMAIN s : IsDecimalChar(s[i])

DigitValue(c) == IndexIn(DecimalDigits, c) - 1

RECURSIVE DecimalValue(_)
DecimalValue(s) ==
    IF Len(s) = 0 THEN 0
    ELSE 10 * DecimalValue(SubSeq(s, 1, Len(s) - 1)) + DigitValue(s[Len(s)])

\* val.split('-'): the list of the pieces between the separators.
RECURSIVE SplitFrom(_, _, _)
SplitFrom(s, i, cur) ==
    IF i > Len(s) THEN <<cur>>
    ELSE IF s[i] = "-" THEN <<cur>> \o SplitFrom(s, i + 1, <<>>)
    ELSE SplitFrom(s, i + 1, Append(cur, s[i]))

Split(s) == SplitFrom(s, 1, <<>>)

\* '-'.join(parts), used to build the input tokens.
RECURSIVE Join(_)
Join(parts) ==
    IF Len(parts) = 0 THEN <<>>
    ELSE IF Len(parts) = 1 THEN parts[1]
    ELSE parts[1] \o <<"-">> \o Join(Tail(parts))

(***************************************************************************)
(* Results of parse_date: a Timestamp, pd.NaT, or an exception raised.     *)
(***************************************************************************)
NaT == [kind |-> "NaT"]

Timestamp(y, m, d) == [kind |-> "date", year |-> y, month |-> m, day |-> d]

Raise(e) == [kind |-> "raise", exc |-> e]

(***************************************************************************)
(* pd.to_datetime(s, format=..., errors='coerce') for the two formats of   *)
(* parse_date.  %b matches a month abbreviation whatever its case, %y two  *)
(* decimal digits, %Y four; the whole string has to match.                 *)
(***************************************************************************)
MonthAbbr ==
    << <<"j","a","n">>, <<"f","e","b">>, <<"m","a","r">>, <<"a","p","r">>,
       <<"m","a","y">>, <<"j","u","n">>, <<"j","u","l">>, <<"a","u","g">>,
       <<"s","e","p">>, <<"o","c","t">>, <<"n","o","v">>, <<"d","e","c">> >>

IsMonth(s) == \E m \in DOMAIN MonthAbbr : MonthAbbr[m] = LowerStr(s)

MonthOf(s) == CHOOSE m \in DOMAIN MonthAbbr : MonthAbbr[m] = LowerStr(s)

\* A faulty century rule: every two-digit year is of the 1900s.
CenturyAllTwentieth(yy) == 1900 + yy

\* %y: 69..99 are 1969..1999, 00..68 are 2000..2068.
Century(yy) == IF yy <= 68 THEN 2000 + yy ELSE 1900 + yy

\* pd.to_datetime(s, format='%b-%y', errors='coerce')
ToDatetime_b_y(s) ==
    LET p == Split(s)
    IN  IF Len(p) = 2 /\ IsMonth(p[1]) /\ Len(p[2]) = 2 /\ StrIsDecimal(p[2])
        THEN Timestamp(Century(DecimalValue(p[2])), MonthOf(p[1]), 1)
        ELSE NaT

\* pd.to_datetime(s, format='%b-%Y', errors='coerce')
ToDatetime_b_Y(s) ==
    LET p == Split(s)
    IN  IF Len(p) = 2 /\ IsMonth(p[1]) /\ Len(p[2]) = 4 /\ StrIsDecimal(p[2])
        THEN Timestamp(DecimalValue(p[2]), MonthOf(p[1]), 1)
        ELSE NaT

\* str(n) for a year of four digits.
YearStr(n) ==
    << DecimalDigits[((n \div 1000) % 10) + 1], DecimalDigits[((n \div 100) % 10) + 1],
       DecimalDigits[((n \div 10) % 10) + 1], DecimalDigits[(n % 10) + 1] >>

\* int(s) for a one-character string: the value of a decimal digit, and
\* ValueError for any other character.
IntRaises(s) == ~StrIsDecimal(s)

(***************************************************************************)
(* parse_date, branch by branch.                                           *)
(***************************************************************************)
FixedYear == 2025

\* Case "Jan-96": the whole token goes to the parser.
CaseMonYY(s, parts) == ToDatetime_b_y(s)

\* A faulty variant of the "25-Apr" case: the left part is taken as the day.
CaseDDMonWithDay(s, parts) ==
    LET t == ToDatetime_b_Y(parts[2] \o <<"-">> \o YearStr(FixedYear))
    IN  IF t.kind = "date" /\ StrIsDecimal(parts[1])
        THEN Timestamp(t.year, t.month, DecimalValue(parts[1]))
        ELSE t

\* Case "25-Apr": f"{parts[1]}-2025" goes to the parser.
CaseDDMon(s, parts) == ToDatetime_b_Y(parts[2] \o <<"-">> \o YearStr(FixedYear))

\* A faulty variant of the "1-Nov" case: the digit is added to 1900.
CaseDMonLastCentury(s, parts) ==
    IF IntRaises(parts[1]) THEN Raise("ValueError")
    ELSE ToDatetime_b_Y(parts[2] \o <<"-">> \o YearStr(1900 + DecimalValue(parts[1])))

\* Case "1-Nov": year = 2000 + int(parts[0]), f"{parts[1]}-{year}" goes to the
\* parser.
CaseDMon(s, parts) ==
    IF IntRaises(parts[1]) THEN Raise("ValueError")
    ELSE ToDatetime_b_Y(parts[2] \o <<"-">> \o YearStr(2000 + DecimalValue(parts[1])))

\* The branch parse_date takes on a value.
Branch(v) ==
    IF ~v.isstr \/ "-" \notin Range(v.s) THEN "guard"
    ELSE LET parts == Split(v.s)
         IN  IF Len(parts[2]) = 2 /\ StrIsAlpha(parts[1]) THEN "MonYY"
             ELSE IF Len(parts[1]) = 2 /\ StrIsDigit(parts[1]) THEN "DDMon"
             ELSE IF StrIsDigit(parts[1]) /\ Len(parts[1]) = 1 THEN "DMon"
             ELSE "none"

parse_date(v) ==
    LET b == Branch(v)
        parts == Split(v.s)
    IN  CASE b = "guard" -> NaT
          [] b = "MonYY" -> CaseMonYY(v.s, parts)
          [] b = "DDMon" -> CaseDDMon(v.s, parts)
          [] b = "DMon"  -> CaseDMon(v.s, parts)
          [] OTHER       -> NaT

(***************************************************************************)
(* The values a series can hold: strings built from pieces joined by the   *)
(* separator, and values that are not strings (None, a float NaN).         *)
(***************************************************************************)
Pieces ==
    { <<"J","a","n">>, <<"A","p","r">>, <<"n","o","v">>, <<"X","y","z">>,
      <<"9","6">>, <<"0","5">>, <<"6","8">>, <<"6","9">>, <<"2","5">>,
      <<"1">>, <<"9">>, <<"sup2">>, <<"x","1">>, <<>> }

PieceSeqs == UNION {[1..n -> Pieces] : n \in 1..MaxParts}

StrValues == {[isstr |-> TRUE, s |-> Join(p)] : p \in PieceSeqs}

NonStrValues == {[isstr |-> FALSE, s |-> <<>>]}

Values == StrValues \cup NonStrValues

Pending == [kind |-> "pending"]


(***************************************************************************)
(* DataFrames.  A frame has an index (its type, its name, its labels), a   *)
(* list of column names and one row of cells per label.  Frames live in a  *)
(* heap of objects; a mapping {name: DataFrame} is a list of               *)
(* [name, ref] in insertion order.                                         *)
(***************************************************************************)
MaxSources == 2

MaxCells == 3

MaxDate == 2

\* Index labels: a calendar day, pd.NaT, or a position of a RangeIndex.
Day(d) == Timestamp(2020, 1, d)

Pos(j) == [kind |-> "pos", at |-> j]

\* Cells: a number, NaN (missing), or a str holding a date or junk.
Num(n) == [kind |-> "num", v |-> n]

NaN == [kind |-> "NaN"]

IsoStr(d) == [kind |-> "str", text |-> "iso", day |-> d]

Junk == [kind |-> "str", text |-> "junk", day |-> 0]

date_column == "Date"

Frame(it, in, ix, cs, rows) ==
    [idxtype |-> it, idxname |-> in, index |-> ix, columns |-> cs, data |-> rows]

\* pd.to_datetime(..., errors='coerce') on one cell of the date column.
ToDatetime(c) ==
    IF c.kind = "str"
    THEN (IF c.text = "iso" THEN Day(c.day) ELSE NaT)
    ELSE c

ColumnAt(t, c) == CHOOSE k \in DOMAIN t.columns : t.columns[k] = c

HasColumn(t, c) == c \in Range(t.columns)

\* isinstance(df.index, pd.DatetimeIndex)
IsDatetimeIndex(t) == t.idxtype = "DatetimeIndex"

\* A faulty copy: the caller's object itself, as if df.copy() were left out.
DfCopyShared(h, r) == [heap |-> h, ref |-> r]

\* df.copy(): a new object holding the same data.
DfCopy(h, r) == [heap |-> Append(h, h[r]), ref |-> Len(h) + 1]

\* df[c] = pd.to_datetime(df[c], errors='coerce'), on the object itself.
AssignToDatetime(t, c) ==
    LET k == ColumnAt(t, c)
    IN  [t EXCEPT !.data = [j \in DOMAIN t.data |->
                               [t.data[j] EXCEPT ![k] = ToDatetime(t.data[j][k])]]]

DropAt(s, k) == SubSeq(s, 1, k - 1) \o SubSeq(s, k + 1, Len(s))

\* df.set_index(c): a new frame whose index is column c.
SetIndex(t, c) ==
    LET k == ColumnAt(t, c)
    IN  Frame("DatetimeIndex", c, [j \in DOMAIN t.data |-> t.data[j][k]],
              DropAt(t.columns, k), [j \in DOMAIN t.data |-> DropAt(t.data[j], k)])

\* temp.add_prefix(f"{name}_"): a new frame with every column renamed.
AddPrefix(t, name) ==
    [t EXCEPT !.columns = [k \in DOMAIN t.columns |-> name \o "_" \o t.columns[k]]]

\* An exception: its type, its message, and the source the message names.
RaiseIn(e, msg, name) == [kind |-> "raise", exc |-> e, msg |-> msg, source |-> name]

\* One turn of the loop over dfs.items(): the heap after it, and the
\* standardized frame or the error raised.
Standardize(h, name, r) ==
    LET c  == DfCopy(h, r)
        df == c.heap[c.ref]
    IN  IF IsDatetimeIndex(df)
        THEN LET h2 == [c.heap EXCEPT ![c.ref].idxname = "Date"]
             IN  [heap |-> h2, ok |-> TRUE, temp |-> AddPrefix(h2[c.ref], name)]
        ELSE IF HasColumn(df, date_column)
        THEN LET h2   == [c.heap EXCEPT ![c.ref] = AssignToDatetime(df, date_column)]
                 temp == [SetIndex(h2[c.ref], date_column) EXCEPT !.idxname = "Date"]
             IN  [heap |-> h2, ok |-> TRUE, temp |-> AddPrefix(temp, name)]
        ELSE [heap |-> c.heap, ok |-> FALSE, temp |-> RaiseIn("ValueError", "No datetime info found in", name)]

RECURSIVE StandardizeAll(_, _, _, _)
StandardizeAll(h, items, i, acc) ==
    IF i > Len(items) THEN [heap |-> h, ok |-> TRUE, list |-> acc]
    ELSE LET s == Standardize(h, items[i].name, items[i].ref)
         IN  IF s.ok THEN StandardizeAll(s.heap, items, i + 1, Append(acc, s.temp))
             ELSE [heap |-> s.heap, ok |-> FALSE, list |-> s.temp]

(***************************************************************************)
(* pd.concat(frames, axis=1, join='outer') and DataFrame.sort_index().     *)
(***************************************************************************)
IsNaT(x) == x.kind = "NaT"

DateKey(x) == x.year * 10000 + x.month * 100 + x.day

\* x sorts at or before y; NaT sorts last.
LabelLE(x, y) == IsNaT(y) \/ (~IsNaT(x) /\ DateKey(x) <= DateKey(y))

Count(s, x) == Cardinality({i \in DOMAIN s : s[i] = x})

IsUnique(s) == \A i, j \in DOMAIN s : s[i] = s[j] => i = j

\* The positions of s in ascending order of label; equal labels keep their
\* order (the sort of a short array is an insertion sort).
RECURSIVE SortPerm(_, _)
SortPerm(s, n) ==
    IF n = 0 THEN <<>>
    ELSE LET p    == SortPerm(s, n - 1)
             keep == Cardinality({i \in DOMAIN p : LabelLE(s[p[i]], s[n])})
         IN  SubSeq(p, 1, keep) \o <<n>> \o SubSeq(p, keep + 1, Len(p))

SortLabels(s) == LET p == SortPerm(s, Len(s)) IN [i \in DOMAIN p |-> s[p[i]]]

SelectSeq2(s, b) ==
    LET keep(j) == Count(SubSeq(b, 1, j), b[j]) > Count(s, b[j])
        F[j \in 0..Len(b)] ==
            IF j = 0 THEN <<>>
            ELSE IF keep(j) THEN Append(F[j - 1], b[j]) ELSE F[j - 1]
    IN  F[Len(b)]

\* Index.union(other, sort=None): self when other is empty or equal, other
\* when self is empty, and otherwise every label as often as the index that
\* repeats it most, sorted.
IndexUnion(a, b) ==
    IF Len(b) = 0 \/ a = b THEN a
    ELSE IF Len(a) = 0 THEN b
    ELSE SortLabels(a \o SelectSeq2(a, b))

RECURSIVE UnionIndexes(_, _)
UnionIndexes(list, n) ==
    IF n = 1 THEN list[1].index
    ELSE IndexUnion(UnionIndexes(list, n - 1), list[n].index)

RECURSIVE Flatten(_)
Flatten(ss) == IF Len(ss) = 0 THEN <<>> ELSE ss[1] \o Flatten(Tail(ss))

MissingRow(t) == [k \in DOMAIN t.columns |-> NaN]

\* A faulty alignment: rows are matched by position, not by label.
GetIndexerByPosition(ix, label, k) == IF k \in DOMAIN ix THEN k ELSE 0

\* Index.get_indexer for one target label (the k-th of the targets): the
\* position of the label in ix, 0 when it is absent.
GetIndexer(ix, label, k) ==
    IF label \in Range(ix) THEN IndexIn(ix, label) ELSE 0

\* The rows of one frame laid on the combined labels.
Reindexed(t, labels) ==
    IF labels = t.index THEN t.data
    ELSE [k \in DOMAIN labels |->
            LET j == GetIndexer(t.index, labels[k], k)
            IN  IF j = 0 THEN MissingRow(t) ELSE t.data[j]]

Concat(list) ==
    IF Len(list) = 0 THEN RaiseIn("ValueError", "No objects to concatenate", "")
    ELSE LET labels == UnionIndexes(list, Len(list))
         IN  IF \E i \in DOMAIN list :
                    list[i].index # labels /\ ~IsUnique(list[i].index)
             THEN RaiseIn("InvalidIndexError",
                          "Reindexing only valid with uniquely valued Index objects", "")
             ELSE [kind  |-> "ok",
                   table |-> Frame("DatetimeIndex", "Date", labels,
                                   Flatten([i \in DOMAIN list |-> list[i].columns]),
                                   [k \in DOMAIN labels |->
                                      Flatten([i \in DOMAIN list |->
                                                 Reindexed(list[i], labels)[k]])])]

\* A faulty sort_index: the rows are left in the order pd.concat gave them.
SortIndexNone(t) == t

\* A faulty sort_index: rows of equal date come out in reverse order.
RECURSIVE SortPermTiesReversed(_, _)
SortPermTiesReversed(s, n) ==
    IF n = 0 THEN <<>>
    ELSE LET p    == SortPermTiesReversed(s, n - 1)
             keep == Cardinality({i \in DOMAIN p : ~LabelLE(s[n], s[p[i]])})
         IN  SubSeq(p, 1, keep) \o <<n>> \o SubSeq(p, keep + 1, Len(p))

SortIndexTiesReversed(t) ==
    LET p == SortPermTiesReversed(t.index, Len(t.index))
    IN  [t EXCEPT !.index = [i \in DOMAIN p |-> t.index[p[i]]],
                  !.data  = [i \in DOMAIN p |-> t.data[p[i]]]]

\* merged_df.sort_index()
SortIndex(t) ==
    LET p == SortPerm(t.index, Len(t.index))
    IN  [t EXCEPT !.index = [i \in DOMAIN p |-> t.index[p[i]]],
                  !.data  = [i \in DOMAIN p |-> t.data[p[i]]]]

\* merge_series_freq(dfs): the heap after the call and what the call gives.
merge_series_freq(h, items) ==
    LET st == StandardizeAll(h, items, 1, <<>>)
    IN  IF ~st.ok THEN [heap |-> st.heap, res |-> st.list]
        ELSE LET c == Concat(st.list)
             IN  IF c.kind = "raise" THEN [heap |-> st.heap, res |-> c]
                 ELSE [heap |-> st.heap,
                       res  |-> [kind |-> "ok", table |-> SortIndex(c.table)]]


(***************************************************************************)
(* The mappings handed to merge_series_freq.  Source i is named            *)
(* SourceNames[i]; it has a DatetimeIndex ("dti"), or a RangeIndex and a   *)
(* "Date" column of strings ("col"), or a RangeIndex and no date at all    *)
(* ("none").  Every observation is a number of its own, so that a cell of  *)
(* the merged table tells where it comes from.                             *)
(***************************************************************************)
SourceNames == <<"gdp", "cpi", "fx", "oil">>

ReNames == {"all", "gdp"}

ValueColumns == <<"Open", "Close">>

Obs(i, j, c) == 100 * i + 10 * j + c

DateOpts == {Day(d) : d \in 1..MaxDate} \cup {NaT}

RawDate(x) == IF IsNaT(x) THEN Junk ELSE IsoStr(x.day)

ObsRow(i, j) == [c \in DOMAIN ValueColumns |-> Num(Obs(i, j, c))]

InputFrame(kind, i, ds) ==
    CASE kind = "dti" ->
           Frame("DatetimeIndex", "None", ds, ValueColumns,
                 [j \in DOMAIN ds |-> ObsRow(i, j)])
      [] kind = "col" ->
           Frame("RangeIndex", "None", [j \in DOMAIN ds |-> Pos(j - 1)],
                 <<date_column>> \o ValueColumns,
                 [j \in DOMAIN ds |-> <<RawDate(ds[j])>> \o ObsRow(i, j)])
      [] OTHER ->
           Frame("RangeIndex", "None", [j \in DOMAIN ds |-> Pos(j - 1)],
                 ValueColumns, [j \in DOMAIN ds |-> ObsRow(i, j)])

RECURSIVE SumTo(_, _)
SumTo(rows, n) == IF n = 0 THEN 0 ELSE SumTo(rows, n - 1) + rows[n]

\* Source i of a mapping whose sources have rows[i] rows each, the dates of
\* all the rows being listed one source after the other in `dates`.
SourceFrame(kinds, rows, dates, i) ==
    InputFrame(kinds[i], i,
               [j \in 1..rows[i] |-> dates[SumTo(rows, i - 1) + j]])

NoValue == [isstr |-> FALSE, s |-> <<>>]

(***************************************************************************)
(* The state machines: one call of parse_date on a value, and one call of  *)
(* merge_series_freq on a mapping followed by a call on its own result.    *)
(***************************************************************************)
InitParse ==
    /\ val \in Values
    /\ out = Pending
    /\ pc = "parse"
    /\ dfs = <<>>
    /\ heap = <<>>
    /\ orig = [heap |-> <<>>, dfs |-> <<>>]
    /\ result = Pending
    /\ again = Pending

\* series.apply(parse_date), on one element.
ParseDate ==
    /\ pc = "parse"
    /\ out' = parse_date(val)
    /\ pc' = "parsed"
    /\ UNCHANGED <<val, dfs, heap, orig, result, again>>

NextParse == ParseDate

SpecParse == InitParse /\ [][NextParse]_vars

InitMerge ==
    /\ \E n \in 0..MaxSources :
         \E kinds \in [1..n -> {"dti", "col", "none"}], rows \in [1..n -> 0..MaxCells] :
           /\ SumTo(rows, n) <= MaxCells
           /\ \E dates \in [1..SumTo(rows, n) -> DateOpts] :
                /\ \A i \in 1..n : \A j \in 1..rows[i] :
                     kinds[i] = "none" => IsNaT(dates[SumTo(rows, i - 1) + j])
                /\ heap = [i \in 1..n |-> SourceFrame(kinds, rows, dates, i)]
    /\ dfs = [i \in DOMAIN heap |-> [name |-> SourceNames[i], ref |-> i]]
    /\ orig = [heap |-> heap, dfs |-> dfs]
    /\ result = Pending
    /\ again = Pending
    /\ pc = "merge"
    /\ val = NoValue
    /\ out = Pending

\* merged = merge_series_freq(dfs)
Merge ==
    /\ pc = "merge"
    /\ LET m == merge_series_freq(heap, dfs)
       IN  /\ heap' = m.heap
           /\ result' = m.res
    /\ pc' = "merged"
    /\ UNCHANGED <<val, out, dfs, orig, again>>

\* merge_series_freq({n: merged})
ReMerge(n) ==
    /\ pc = "merged"
    /\ result.kind = "ok"
    /\ LET h == Append(heap, result.table)
           m == merge_series_freq(h, <<[name |-> n, ref |-> Len(h)]>>)
       IN  /\ heap' = m.heap
           /\ again' = [name |-> n, ref |-> Len(h), res |-> m.res]
    /\ pc' = "remerged"
    /\ UNCHANGED <<val, out, dfs, orig, result>>

NextMerge == Merge \/ \E n \in ReNames : ReMerge(n)

SpecMerge == InitMerge /\ [][NextMerge]_vars


(***************************************************************************)
(* Properties of parse_date (under SpecParse).                             *)
(***************************************************************************)
Str(chars) == [isstr |-> TRUE, s |-> chars]

Parsed == pc = "parsed"

\* The pieces of the token between its separators.
Piece(k) == Split(val.s)[k]

NPieces == Len(Split(val.s))

HasSeparator == val.isstr /\ "-" \in Range(val.s)

\* C1: parse_date gives a date or NaT for every value and never raises; it
\* gives NaT when the value is not a string, has no '-' in it, or has no
\* month abbreviation in either slot.
C1_NeverRaises ==
    Parsed =>
        /\ out.kind \in {"date", "NaT"}
        /\ ~HasSeparator => out = NaT
        /\ (HasSeparator /\ ~IsMonth(Piece(1)) /\ ~IsMonth(Piece(2))) => out = NaT

IsDDMon ==
    /\ HasSeparator
    /\ NPieces = 2
    /\ Len(Piece(1)) = 2
    /\ StrIsDecimal(Piece(1))
    /\ IsMonth(Piece(2))

IsMonYY ==
    /\ HasSeparator
    /\ NPieces = 2
    /\ StrIsAlpha(Piece(1))
    /\ IsMonth(Piece(1))
    /\ Len(Piece(2)) = 2
    /\ StrIsDecimal(Piece(2))

\* The century rule of %y: a two-digit year from 69 on is of the 1900s, one
\* up to 68 of the 2000s.
PinnedYear(yy) == IF yy >= 69 THEN yy + 1900 ELSE yy + 2000

\* C7: a token Mon-YY gives the first day of month Mon of the year the
\* century rule gives YY, and it is the first shape tried.
C7_MonYY ==
    (Parsed /\ IsMonYY) =>
        /\ Branch(val) = "MonYY"
        /\ out = Timestamp(PinnedYear(DecimalValue(Piece(2))), MonthOf(Piece(1)), 1)

C7_Witness ==
    /\ Parsed
    /\ val = Str(<<"J", "a", "n", "-", "9", "6">>)
    /\ out = Timestamp(1996, 1, 1)

IsDMon ==
    /\ HasSeparator
    /\ NPieces = 2
    /\ Len(Piece(1)) = 1
    /\ StrIsDecimal(Piece(1))
    /\ IsMonth(Piece(2))

\* C8: a token D-Mon, D one of the digits 0..9, gives a date in month Mon of
\* the year 2000 + D.
C8_DMon ==
    (Parsed /\ IsDMon) =>
        /\ out.kind = "date"
        /\ out.month = MonthOf(Piece(2))
        /\ out.year = 2000 + DigitValue(Piece(1)[1])

C8_Witness ==
    /\ Parsed
    /\ val = Str(<<"1", "-", "n", "o", "v">>)
    /\ out = Timestamp(2001, 11, 1)

\* C9: a token of three or more pieces is rejected: it is never parsed into
\* a date from its first two pieces.
C9_ThreePartsRejected ==
    (Parsed /\ HasSeparator /\ NPieces >= 3) => out.kind # "date"


(***************************************************************************)
(* Properties of merge_series_freq (under SpecMerge).  The inputs are read *)
(* from orig, the mapping and the frames as they were before the call.     *)
(***************************************************************************)
Merged == pc \in {"merged", "remerged"}

Sources == DOMAIN orig.dfs

In(i) == orig.heap[orig.dfs[i].ref]

HasDateAxis(t) == t.idxtype = "DatetimeIndex" \/ "Date" \in Range(t.columns)

DateOfCell(c) == IF c.kind = "str" /\ c.text = "iso" THEN Day(c.day) ELSE NaT

\* The dates of the rows of source i, a missing date for an entry of its
\* "Date" column that is no date; none for a source with no date axis.
InDates(i) ==
    LET t == In(i)
    IN  IF t.idxtype = "DatetimeIndex" THEN t.index
        ELSE IF "Date" \in Range(t.columns)
        THEN [j \in DOMAIN t.data |-> DateOfCell(t.data[j][ColumnAt(t, "Date")])]
        ELSE <<>>

\* The columns of source i other than its date column, and where they are.
ValueColumnsOf(i) == {k \in DOMAIN In(i).columns :
                         In(i).idxtype = "DatetimeIndex" \/ In(i).columns[k] # "Date"}

AllHaveDateAxis == \A i \in Sources : HasDateAxis(In(i))

AllDates == UNION {Range(InDates(i)) : i \in Sources}

NoDateRepeated == \A i \in Sources : IsUnique(InDates(i))

Before(x, y) == ~IsNaT(x) /\ (IsNaT(y) \/ DateKey(x) < DateKey(y))

\* The row index is the set union of the inputs' dates, each once, in
\* ascending order (a missing date last); so the table has as many rows as
\* the union has dates, and no fewer than any input.
IndexIsSetUnion(ix) ==
    /\ Range(ix) = AllDates
    /\ \A k, l \in DOMAIN ix : k < l => Before(ix[k], ix[l])
    /\ Len(ix) = Cardinality(AllDates)
    /\ \A i \in Sources : Len(ix) >= Len(InDates(i))
    /\ (Cardinality(Sources) = 2 /\ Range(InDates(1)) \cap Range(InDates(2)) = {}) =>
           Len(ix) = Cardinality(Range(InDates(1)) \cup Range(InDates(2)))

NoDateMissing == \A i \in Sources : \A j \in DOMAIN InDates(i) : ~IsNaT(InDates(i)[j])

\* C3 as stated: whenever every input has a date axis, the row index of the
\* table returned is exactly the set union of the inputs' dates, ascending
\* (stated here for the inputs none of whose dates is missing).
C3_IndexIsUnionAlways ==
    (Merged /\ AllHaveDateAxis /\ NoDateMissing /\ result.kind = "ok") =>
        IndexIsSetUnion(result.table.index)

\* C3 as amended: for a non-empty mapping of inputs that each have a date
\* axis on which no date is repeated (a missing date counting as one date),
\* a table is returned and its row index is exactly the set union of the
\* inputs' dates, ascending.
C3_IndexIsUnionOfDistinctDates ==
    (Merged /\ Sources # {} /\ AllHaveDateAxis /\ NoDateRepeated) =>
        /\ result.kind = "ok"
        /\ IndexIsSetUnion(result.table.index)

C3_Witness ==
    /\ pc = "merged"
    /\ Cardinality(Sources) = 2
    /\ AllHaveDateAxis
    /\ NoDateRepeated
    /\ Len(InDates(1)) = 2
    /\ Len(InDates(2)) = 1
    /\ Range(InDates(1)) \cap Range(InDates(2)) = {}
    /\ InDates(1)[1] = Day(2)
    /\ result.kind = "ok"
    /\ Len(result.table.index) = 3

\* The column of the merged table that source i's column k goes to.
MergedColumn(i, k) == orig.dfs[i].name \o "_" \o In(i).columns[k]

CellAt(t, r, c) == t.data[r][ColumnAt(t, c)]

\* C4: in the table returned, every observation of every source is at a row
\* of its date, in the column "<source>_<column>", unchanged; and a cell of
\* a source's column at a row whose date the source does not have is
\* missing.
C4_ObservationsPlaced ==
    (Merged /\ result.kind = "ok") =>
        \A i \in Sources : \A k \in ValueColumnsOf(i) :
            /\ Count(result.table.columns, MergedColumn(i, k)) = 1
            /\ \A j \in DOMAIN In(i).data :
                 \E r \in DOMAIN result.table.index :
                   /\ result.table.index[r] = InDates(i)[j]
                   /\ CellAt(result.table, r, MergedColumn(i, k)) = In(i).data[j][k]
            /\ \A r \in DOMAIN result.table.index :
                 result.table.index[r] \notin Range(InDates(i)) =>
                     CellAt(result.table, r, MergedColumn(i, k)) = NaN

C4_Witness ==
    /\ pc = "merged"
    /\ Cardinality(Sources) = 2
    /\ result.kind = "ok"
    /\ Len(result.table.index) = 3
    /\ In(2).idxtype = "RangeIndex"
    /\ \E r \in DOMAIN result.table.index :
         /\ CellAt(result.table, r, "cpi_Open") = Num(Obs(2, 1, 1))
         /\ CellAt(result.table, r, "gdp_Open") = NaN

\* The only irregular dates of the inputs are entries of a "Date" column that
\* are no dates: no DatetimeIndex has a missing or a repeated date, and no
\* "Date" column repeats a date.
OnlyUnparseableEntries ==
    \A i \in Sources :
        /\ In(i).idxtype = "DatetimeIndex" =>
             IsUnique(InDates(i)) /\ \A j \in DOMAIN InDates(i) : ~IsNaT(InDates(i)[j])
        /\ \A j, l \in DOMAIN InDates(i) :
             (InDates(i)[j] = InDates(i)[l] /\ ~IsNaT(InDates(i)[j])) => j = l

\* C5: the merge fails exactly when some input has neither a DatetimeIndex
\* nor a "Date" column, and the error then names such an input; entries of a
\* "Date" column that are no dates do not make it fail (stated here for the
\* non-empty mappings whose only irregular dates are such entries).
C5_FailsOnlyWithoutDateAxis ==
    (Merged /\ Sources # {} /\ OnlyUnparseableEntries) =>
        /\ result.kind = "raise" <=> ~AllHaveDateAxis
        /\ result.kind = "raise" =>
             \E i \in Sources : ~HasDateAxis(In(i)) /\ result.source = orig.dfs[i].name

\* C6: the call leaves every frame it was handed, and the mapping, as they
\* were, whether it returns or raises.
C6_InputsNotMutated ==
    Merged =>
        /\ dfs = orig.dfs
        /\ Len(heap) >= Len(orig.heap)
        /\ SubSeq(heap, 1, Len(orig.heap)) = orig.heap
        /\ pc = "remerged" => heap[again.ref] = result.table

C6_Witness ==
    /\ pc = "merged"
    /\ Cardinality(Sources) = 2
    /\ "Date" \in Range(In(1).columns)
    /\ Len(In(1).data) = 2
    /\ result = RaiseIn("ValueError", "No datetime info found in", "cpi")
    /\ Len(heap) > Len(orig.heap)
    /\ heap[Len(orig.heap) + 1] # In(1)
    /\ heap[1] = In(1)

====
